---- MODULE Spec2Model ----
(***************************************************************************)
(* TropyToTumblr (src/TropyToTumblr/index.js): a Tropy plugin whose export *)
(* hook collects the local photo paths and the tags of the exported items  *)
(* and posts them to Tumblr as one photo post.                             *)
(*                                                                         *)
(* The export payload is read as the code reads it: the shape test of      *)
(* line 66 first, then one item of data['@graph'] per loop iteration, its  *)
(* photo member and then its tag member.  The file system, the signing     *)
(* library and the transport are the environment: a file may disappear, a  *)
(* library call may throw, the request may fail or be answered.            *)
(***************************************************************************)
EXTENDS Integers, Sequences, FiniteSets, TLC

VARIABLES
  this,        \* the plugin instance: options and the five credential fields
  defaults,    \* the shared TropyToTumblr.defaults record
  userOptions, \* the options object the host passed to the constructor
  fs,          \* the paths that exist on the local file system
  pc,          \* idle | extracting | noop | uploading | success | failure
  step,        \* the position inside the current phase
  data,        \* the shape of the export payload of the running call
  idx,         \* number of items of data['@graph'] the loop has passed
  photoPaths,  \* const photoPaths (line 72)
  allTags,     \* const allTags = new Set(), in insertion order (line 73)
  tagArray,    \* Array.from(allTags) (line 96)
  form,        \* the parts appended to the FormData, in order
  streams,     \* one entry per read stream opened: "open" or "closed"
  posts,       \* number of requests handed to fetch in the running call
  response,    \* what fetch resolved with
  log,         \* what the running call wrote to the host's logger
  settled,     \* the promise export() returned: pending | fulfilled | rejected
  thrown,      \* the message of the Error postPhotosToTumblr threw, if any
  graphTags,   \* history: every tag of every item the loop has passed
  tagRepeated, \* history: the loop has passed a tag it had passed before
  checkedOk    \* history: the paths whose existence check succeeded, in order

vars == << this, defaults, userOptions, fs, pc, step, data, idx, photoPaths,
           allTags, tagArray, form, streams, posts, response, log, settled,
           thrown, graphTags, tagRepeated, checkedOk >>

----------------------------------------------------------------------------
(* Bounds of the model *)

MaxItems == 2
MaxPhotos == 1
MaxTags == 2

----------------------------------------------------------------------------
(* Helpers *)

Range(s) == {s[i] : i \in 1..Len(s)}

SeqsUpTo(S, n) == UNION {[1..k -> S] : k \in 0..n}

RECURSIVE SelectPaths(_, _)
RECURSIVE AddAll(_, _)
RECURSIVE Join(_)
RECURSIVE FileParts(_)

----------------------------------------------------------------------------
(* Credentials *)

Keys == {"blogName", "consumerKey", "consumerSecret", "token", "tokenSecret"}

\* TropyToTumblr.defaults
Defaults ==
  [blogName       |-> "YOUR_BLOG_NAME",
   consumerKey    |-> "YOUR_DEFAULT_CONSUMER_KEY",
   consumerSecret |-> "YOUR_DEFAULT_CONSUMER_SECRET",
   token          |-> "YOUR_DEFAULT_TOKEN",
   tokenSecret    |-> "YOUR_DEFAULT_TOKEN_SECRET"]

\* What a user may have entered for a key in the host's preferences.
UserValue ==
  [blogName       |-> "myblog",
   consumerKey    |-> "ck-user",
   consumerSecret |-> "cs-user",
   token          |-> "tok-user",
   tokenSecret    |-> "ts-user"]

\* The keys a user has filled in: none, all, or one of two complementary parts.
SuppliedKeySets ==
  {{}, Keys, {"blogName", "token"}, {"consumerKey", "consumerSecret", "tokenSecret"}}

\* The options objects the host may pass.
UserOptionSets == {[k \in D |-> UserValue[k]] : D \in SuppliedKeySets}

\* A merge in which the defaults are spread last.
MergeDefaultsWin(d, o) ==
  [k \in DOMAIN d \cup DOMAIN o |-> IF k \in DOMAIN d THEN d[k] ELSE o[k]]

\* { ...TropyToTumblr.defaults, ...options }
MergeOptions(d, o) ==
  [k \in DOMAIN d \cup DOMAIN o |-> IF k \in DOMAIN o THEN o[k] ELSE d[k]]

\* constructor(options, context)
Construct(d, o) ==
  LET merged == MergeOptions(d, o) IN
  [options        |-> merged,
   blogName       |-> merged["blogName"],
   consumerKey    |-> merged["consumerKey"],
   consumerSecret |-> merged["consumerSecret"],
   token          |-> merged["token"],
   tokenSecret    |-> merged["tokenSecret"]]

----------------------------------------------------------------------------
(* The export payload *)

\* A photo entry's path: missing or empty, or one of two local files.
Paths == {"", "/img/a.jpg", "/img/b.jpg"}
Files == Paths \ {""}

Tags == {"x", "y"}

\* A member that is absent or no array.
NotAList == [isArray |-> FALSE, list |-> <<>>]

List(s) == [isArray |-> TRUE, list |-> s]

\* node.photo and node.tag: absent (or no array), or a list.
PhotoValues == {NotAList} \cup {List(s) : s \in SeqsUpTo([path : Paths], MaxPhotos)}
TagValues == {NotAList} \cup {List(s) : s \in SeqsUpTo(Tags, MaxTags)}

\* Array.isArray
IsArray(v) == v.isArray

\* The payloads by what line 66 looks at: no payload, no '@graph' list, or a
\* graph of len items.
DataShapes ==
  {[present |-> FALSE, graphIsArray |-> FALSE, len |-> 0],
   [present |-> TRUE, graphIsArray |-> FALSE, len |-> 0]}
  \cup {[present |-> TRUE, graphIsArray |-> TRUE, len |-> n] : n \in 0..MaxItems}

NoData == [present |-> FALSE, graphIsArray |-> FALSE, len |-> 0]

\* !data || !Array.isArray(data['@graph']) || data['@graph'].length === 0
NothingToExport(d) == ~d.present \/ ~d.graphIsArray \/ d.len = 0

----------------------------------------------------------------------------
(* Extraction *)

\* A check that lets every non-empty path through.
ExistsAlways(p, files) == p # ""

\* p.path && fs.existsSync(p.path)
PathUsable(p, files) == p # "" /\ p \in files

\* for (const p of node.photo) if (...) photoPaths.push(p.path)
SelectPaths(photo, files) ==
  IF photo = <<>> THEN <<>>
  ELSE (IF PathUsable(Head(photo).path, files) THEN <<Head(photo).path>> ELSE <<>>)
       \o SelectPaths(Tail(photo), files)

\* The photo block of one loop iteration (lines 77-83).
NodePaths(photo, files) ==
  IF IsArray(photo) THEN SelectPaths(photo.list, files) ELSE <<>>

\* An add that appends without looking for the tag.
SetAddNoDedup(set, tag) == Append(set, tag)

\* Set.prototype.add: insertion order, no second copy.
SetAdd(set, tag) == IF tag \in Range(set) THEN set ELSE Append(set, tag)

\* node.tag.forEach(tag => allTags.add(tag))
AddAll(set, tag) ==
  IF tag = <<>> THEN set ELSE AddAll(SetAdd(set, Head(tag)), Tail(tag))

\* The tag block of one loop iteration (lines 85-87).
NodeTags(set, tag) == IF IsArray(tag) THEN AddAll(set, tag.list) ELSE set

\* Array.from(allTags)
ArrayFrom(set) == set

----------------------------------------------------------------------------
(* The multipart form *)

\* tags.join(','): a text is a sequence of pieces.
Join(tags) ==
  IF tags = <<>> THEN <<>>
  ELSE IF Len(tags) = 1 THEN <<Head(tags)>>
  ELSE <<Head(tags), ",">> \o Join(Tail(tags))

Field(name, value) == [name |-> name, kind |-> "field", value |-> value]

\* form.append('data[]', fs.createReadStream(filepath))
FilePart(filepath) == [name |-> "data[]", kind |-> "stream", value |-> <<filepath>>]

FileParts(paths) ==
  IF paths = <<>> THEN <<>> ELSE <<FilePart(Head(paths))>> \o FileParts(Tail(paths))

\* A form that always carries a tags field.
BuildFormAlwaysTags(paths, caption, tags) ==
  << Field("type", <<"photo">>), Field("caption", caption),
     Field("tags", Join(tags)) >> \o FileParts(paths)

\* Lines 119-132.
BuildForm(paths, caption, tags) ==
  << Field("type", <<"photo">>), Field("caption", caption) >>
  \o (IF Len(tags) > 0 THEN << Field("tags", Join(tags)) >> ELSE <<>>)
  \o FileParts(paths)

\* One read stream per path, open from createReadStream on.
OpenStreams(paths) == [i \in 1..Len(paths) |-> "open"]

\* The streams once the transport has read the body to its end (autoClose).
Consumed(s) == [i \in DOMAIN s |-> "closed"]

\* The empty caption export passes.
EmptyCaption == <<>>

----------------------------------------------------------------------------
(* The platform's answer *)

Statuses == {200, 401, 500}

\* response.ok
ResponseOk(r) == r.status >= 200 /\ r.status < 300

\* Template-literal rendering of response.status.
StatusText(n) ==
  CASE n = 200 -> "200" [] n = 401 -> "401" [] n = 500 -> "500"

\* Response bodies as sent: two spellings of one document, an error document,
\* and a body that is no JSON.
RawBodies ==
  {"{\"id\":7}", "{ \"id\" : 7 }", "{\"errors\":\"Unauthorized\"}",
   "<html>Bad Gateway</html>"}

Responses == [status : Statuses, body : RawBodies]

NoResponse == [status |-> 0, body |-> ""]

NoJson == [key |-> "", val |-> ""]

IsJson(raw) ==
  raw \in {"{\"id\":7}", "{ \"id\" : 7 }", "{\"errors\":\"Unauthorized\"}"}

\* The value response.json() resolves with.
JsonParse(raw) ==
  CASE raw = "{\"id\":7}" -> [key |-> "id", val |-> "7"]
    [] raw = "{ \"id\" : 7 }" -> [key |-> "id", val |-> "7"]
    [] raw = "{\"errors\":\"Unauthorized\"}" -> [key |-> "errors", val |-> "Unauthorized"]
    [] OTHER -> NoJson

\* What response.json() rejects with.
ParseError(raw) == "FetchError: invalid json response body: Unexpected token <"

\* JSON.stringify
JsonStringify(v) ==
  CASE v = [key |-> "id", val |-> "7"] -> "{\"id\":7}"
    [] v = [key |-> "errors", val |-> "Unauthorized"] -> "{\"errors\":\"Unauthorized\"}"
    [] OTHER -> "undefined"

\* What fetch rejects with.
TransportErrors == {"ECONNREFUSED", "ECONNRESET"}

TransportMessage(e) == <<"request to api.tumblr.com failed, reason: ", e>>

\* What a throwing library call inside request construction carries.
ConstructMessage == <<"Invalid key length">>

----------------------------------------------------------------------------
(* The uploader's reading of the response, and export's try/catch *)

ParseFailureText == "Tumblr response is not valid JSON: "
ApiErrorText == "Tumblr API error (status="

\* A reading that never looks at response.ok.
ReadResponseNoStatusCheck(r) ==
  IF ~IsJson(r.body)
    THEN [threw |-> TRUE, value |-> NoJson,
          message |-> <<ParseFailureText, ParseError(r.body)>>]
  ELSE [threw |-> FALSE, value |-> JsonParse(r.body), message |-> <<>>]

\* A reading that tests response.ok before it parses the body.
ReadResponseStatusFirst(r) ==
  IF ~ResponseOk(r)
    THEN [threw |-> TRUE, value |-> NoJson,
          message |-> <<ApiErrorText, StatusText(r.status), "): ",
                        JsonStringify(JsonParse(r.body))>>]
  ELSE IF ~IsJson(r.body)
    THEN [threw |-> TRUE, value |-> NoJson,
          message |-> <<ParseFailureText, ParseError(r.body)>>]
  ELSE [threw |-> FALSE, value |-> JsonParse(r.body), message |-> <<>>]

\* Lines 149-163: the value returned, or the message of the Error thrown.
ReadResponse(r) ==
  IF ~IsJson(r.body)
    THEN [threw |-> TRUE, value |-> NoJson,
          message |-> <<ParseFailureText, ParseError(r.body)>>]
  ELSE IF ~ResponseOk(r)
    THEN [threw |-> TRUE, value |-> NoJson,
          message |-> <<ApiErrorText, StatusText(r.status), "): ",
                        JsonStringify(JsonParse(r.body))>>]
  ELSE [threw |-> FALSE, value |-> JsonParse(r.body), message |-> <<>>]

Entry(level, text, result, message) ==
  [level |-> level, text |-> text, result |-> result, message |-> message]

ReceivedText == "TropyToTumblr.export() received data:"
NoItemsText == "No items found in the Tropy export data."
NoPhotosText == "No local photos found among the selected items."
PostingText == "Posting photo(s) to Tumblr blog with tags:"
PostedText == "Posted to Tumblr successfully:"
FailedText == "Failed to post photos to Tumblr:"

\* A success that is logged and then also reported as a failure.
OnUploadResultLoggedTwice(result) ==
  [pc |-> "success", step |-> "done", settled |-> "fulfilled",
   entries |-> <<Entry("info", PostedText, result, <<>>),
                 Entry("error", FailedText, NoJson, <<>>)>>]

\* Line 105: the await returned.
OnUploadResult(result) ==
  [pc |-> "success", step |-> "done", settled |-> "fulfilled",
   entries |-> <<Entry("info", PostedText, result, <<>>)>>]

\* A catch block that logs and sends the request again.
OnUploadErrorRetry(message) ==
  [pc |-> "uploading", step |-> "sign", settled |-> "pending",
   entries |-> <<Entry("error", FailedText, NoJson, message)>>]

\* No catch block: the error reaches the host.
OnUploadErrorRethrow(message) ==
  [pc |-> "failure", step |-> "done", settled |-> "rejected", entries |-> <<>>]

\* Lines 106-108: the await threw.
OnUploadError(message) ==
  [pc |-> "failure", step |-> "done", settled |-> "fulfilled",
   entries |-> <<Entry("error", FailedText, NoJson, message)>>]

----------------------------------------------------------------------------
(* The state machine *)

Terminal == {"noop", "success", "failure"}

Init ==
  /\ defaults = Defaults
  /\ userOptions \in UserOptionSets
  /\ this = Construct(Defaults, userOptions)
  /\ fs \in SUBSET Files
  /\ pc = "idle"
  /\ step = "none"
  /\ data = NoData
  /\ idx = 0
  /\ photoPaths = <<>>
  /\ allTags = <<>>
  /\ tagArray = <<>>
  /\ form = <<>>
  /\ streams = <<>>
  /\ posts = 0
  /\ response = NoResponse
  /\ log = <<>>
  /\ settled = "none"
  /\ thrown = <<>>
  /\ graphTags = {}
  /\ tagRepeated = FALSE
  /\ checkedOk = <<>>

\* The host calls export(data); line 64.
ExportCall(d) ==
  /\ pc = "idle"
  /\ pc' = "extracting"
  /\ step' = "validate"
  /\ data' = d
  /\ settled' = "pending"
  /\ log' = <<Entry("info", ReceivedText, NoJson, <<>>)>>
  /\ UNCHANGED << this, defaults, userOptions, fs, idx, photoPaths, allTags,
                  tagArray, form, streams, posts, response, graphTags, checkedOk,
                  thrown, tagRepeated >>

\* Lines 66-69.
Validate ==
  /\ pc = "extracting" /\ step = "validate"
  /\ IF NothingToExport(data)
       THEN /\ pc' = "noop"
            /\ step' = "done"
            /\ settled' = "fulfilled"
            /\ log' = Append(log, Entry("info", NoItemsText, NoJson, <<>>))
       ELSE /\ pc' = "extracting"
            /\ step' = "photos"
            /\ UNCHANGED << settled, log >>
  /\ UNCHANGED << this, defaults, userOptions, fs, data, idx, photoPaths, allTags,
                  tagArray, form, streams, posts, response, graphTags, checkedOk,
                  thrown, tagRepeated >>

\* Lines 75-83: the photo member of the next item.
LoopPhotos(photo) ==
  /\ pc = "extracting" /\ step = "photos" /\ idx < data.len
  /\ photoPaths' = photoPaths \o NodePaths(photo, fs)
  /\ checkedOk' = checkedOk \o
        (IF photo.isArray
           THEN SelectSeq([i \in 1..Len(photo.list) |-> photo.list[i].path],
                          LAMBDA p : p # "" /\ p \in fs)
           ELSE <<>>)
  /\ step' = "tags"
  /\ UNCHANGED << this, defaults, userOptions, fs, pc, data, idx, allTags, tagArray,
                  form, streams, posts, response, log, settled, graphTags,
                  thrown, tagRepeated >>

\* Lines 84-88: the tag member of the same item.
LoopTags(tag) ==
  /\ pc = "extracting" /\ step = "tags"
  /\ allTags' = NodeTags(allTags, tag)
  /\ graphTags' = graphTags \cup (IF tag.isArray THEN Range(tag.list) ELSE {})
  /\ tagRepeated' =
       (\/ tagRepeated
        \/ /\ tag.isArray
           /\ \/ Range(tag.list) \cap graphTags # {}
              \/ Cardinality(Range(tag.list)) < Len(tag.list))
  /\ idx' = idx + 1
  /\ step' = "photos"
  /\ UNCHANGED << this, defaults, userOptions, fs, pc, data, photoPaths, tagArray,
                  form, streams, posts, response, log, settled, checkedOk,
                  thrown >>

\* Lines 90-101: the loop is over.
EndLoop ==
  /\ pc = "extracting" /\ step = "photos" /\ idx = data.len
  /\ IF Len(photoPaths) = 0
       THEN /\ pc' = "noop"
            /\ step' = "done"
            /\ settled' = "fulfilled"
            /\ log' = Append(log, Entry("info", NoPhotosText, NoJson, <<>>))
            /\ UNCHANGED tagArray
       ELSE /\ pc' = "uploading"
            /\ step' = "build"
            /\ tagArray' = ArrayFrom(allTags)
            /\ log' = Append(log, Entry("info", PostingText, NoJson,
                                        <<this.blogName>> \o ArrayFrom(allTags)))
            /\ UNCHANGED settled
  /\ UNCHANGED << this, defaults, userOptions, fs, data, idx, photoPaths, allTags,
                  form, streams, posts, response, graphTags, checkedOk,
                  thrown, tagRepeated >>

\* Lines 115-132: postPhotosToTumblr(photoPaths, '', tagArray) fills the form.
BuildRequest ==
  /\ pc = "uploading" /\ step = "build"
  /\ form' = BuildForm(photoPaths, EmptyCaption, tagArray)
  /\ streams' = OpenStreams(photoPaths)
  /\ step' = "sign"
  /\ UNCHANGED << this, defaults, userOptions, fs, pc, data, idx, photoPaths, allTags,
                  tagArray, posts, response, log, settled, graphTags, checkedOk,
                  thrown, tagRepeated >>

\* What the call does once the await of line 104 has returned or thrown.
Settle(o) ==
  /\ pc' = o.pc
  /\ step' = o.step
  /\ settled' = o.settled
  /\ log' = log \o o.entries

\* Lines 134-140: a library call of request construction throws.
ConstructFail ==
  /\ pc = "uploading" /\ step = "sign"
  /\ thrown' = ConstructMessage
  /\ Settle(OnUploadError(ConstructMessage))
  /\ UNCHANGED << this, defaults, userOptions, fs, data, idx, photoPaths, allTags,
                  tagArray, form, streams, posts, response, graphTags, checkedOk,
                  tagRepeated >>

\* Lines 134-147: the request is signed and handed to fetch.
SendRequest ==
  /\ pc = "uploading" /\ step = "sign"
  /\ posts' = posts + 1
  /\ step' = "fetch"
  /\ UNCHANGED << this, defaults, userOptions, fs, pc, data, idx, photoPaths, allTags,
                  tagArray, form, streams, response, log, settled, graphTags,
                  checkedOk,
                  thrown, tagRepeated >>

\* Line 143: fetch rejects; the body was read to its end or it was not.
FetchReject(e, bodyRead) ==
  /\ pc = "uploading" /\ step = "fetch"
  /\ streams' = IF bodyRead THEN Consumed(streams) ELSE streams
  /\ thrown' = TransportMessage(e)
  /\ Settle(OnUploadError(TransportMessage(e)))
  /\ UNCHANGED << this, defaults, userOptions, fs, data, idx, photoPaths, allTags,
                  tagArray, form, posts, response, graphTags, checkedOk,
                  tagRepeated >>

\* Line 143: fetch resolves with the platform's response.
FetchResolve(r) ==
  /\ pc = "uploading" /\ step = "fetch"
  /\ response' = r
  /\ streams' = Consumed(streams)
  /\ step' = "read"
  /\ UNCHANGED << this, defaults, userOptions, fs, pc, data, idx, photoPaths, allTags,
                  tagArray, form, posts, log, settled, graphTags, checkedOk,
                  thrown, tagRepeated >>

\* Lines 149-163 and 105-108.
HandleResponse ==
  /\ pc = "uploading" /\ step = "read"
  /\ LET o == ReadResponse(response) IN
       /\ thrown' = o.message
       /\ Settle(IF o.threw THEN OnUploadError(o.message) ELSE OnUploadResult(o.value))
  /\ UNCHANGED << this, defaults, userOptions, fs, data, idx, photoPaths, allTags,
                  tagArray, form, streams, posts, response, graphTags, checkedOk,
                  tagRepeated >>

\* export() is over; its locals are gone.
Return ==
  /\ pc \in Terminal
  /\ pc' = "idle"
  /\ step' = "none"
  /\ data' = NoData
  /\ idx' = 0
  /\ photoPaths' = <<>>
  /\ allTags' = <<>>
  /\ tagArray' = <<>>
  /\ form' = <<>>
  /\ streams' = <<>>
  /\ posts' = 0
  /\ response' = NoResponse
  /\ log' = <<>>
  /\ settled' = "none"
  /\ thrown' = <<>>
  /\ graphTags' = {}
  /\ tagRepeated' = FALSE
  /\ checkedOk' = <<>>
  /\ UNCHANGED << this, defaults, userOptions, fs >>

\* Another process deletes a file.
FsRemove(p) ==
  /\ p \in fs
  /\ fs' = fs \ {p}
  /\ UNCHANGED << this, defaults, userOptions, pc, step, data, idx, photoPaths,
                  allTags, tagArray, form, streams, posts, response, log, settled,
                  graphTags, checkedOk,
                  thrown, tagRepeated >>

Next ==
  \/ \E d \in DataShapes : ExportCall(d)
  \/ Validate
  \/ \E photo \in PhotoValues : LoopPhotos(photo)
  \/ \E tag \in TagValues : LoopTags(tag)
  \/ EndLoop
  \/ BuildRequest
  \/ ConstructFail
  \/ SendRequest
  \/ \E e \in TransportErrors, bodyRead \in BOOLEAN : FetchReject(e, bodyRead)
  \/ \E r \in Responses : FetchResolve(r)
  \/ HandleResponse
  \/ Return
  \/ \E p \in Files : FsRemove(p)

Spec == Init /\ [][Next]_vars

\* The steps export() takes by itself once the host has called it.
ProgramStep ==
  \/ Validate
  \/ \E photo \in PhotoValues : LoopPhotos(photo)
  \/ \E tag \in TagValues : LoopTags(tag)
  \/ EndLoop
  \/ BuildRequest
  \/ ConstructFail
  \/ SendRequest
  \/ HandleResponse

\* The transport answers or fails.
TransportStep ==
  \/ \E e \in TransportErrors, bodyRead \in BOOLEAN : FetchReject(e, bodyRead)
  \/ \E r \in Responses : FetchResolve(r)

\* The event loop runs every continuation that is ready, and the transport
\* eventually responds or fails.
LiveSpec == Spec /\ WF_vars(ProgramStep) /\ WF_vars(TransportStep)

----------------------------------------------------------------------------
(* Properties *)

Last(s) == s[Len(s)]

UploaderInvoked == pc \in {"uploading", "success", "failure"}

ErrorEntries == {i \in 1..Len(log) : log[i].level = "error"}

TerminalTexts == {NoItemsText, NoPhotosText, PostedText, FailedText}

TerminalEntries == {i \in 1..Len(log) : log[i].text \in TerminalTexts}

\* C1: the uploader runs only for a present payload whose graph is a non-empty
\* list and for which at least one existence check succeeded; the path list is
\* exactly the paths whose check succeeded, in order; and a call with nothing
\* to post ends fulfilled after an informational log, with no request, no
\* stream and no error log.
C1_UploadOnlyWithExistingPhoto ==
  /\ photoPaths = checkedOk
  /\ UploaderInvoked =>
       /\ data.present /\ data.graphIsArray /\ data.len > 0
       /\ idx = data.len
       /\ checkedOk # <<>>
  /\ (pc \in Terminal /\ (NothingToExport(data) \/ checkedOk = <<>>)) => pc = "noop"
  /\ pc = "noop" =>
       /\ NothingToExport(data) \/ (idx = data.len /\ checkedOk = <<>>)
       /\ posts = 0 /\ form = <<>> /\ streams = <<>>
       /\ ErrorEntries = {}
       /\ Last(log).level = "info"
       /\ Last(log).text = (IF NothingToExport(data) THEN NoItemsText ELSE NoPhotosText)
       /\ settled = "fulfilled"

\* Every item of a two-item graph was walked, files exist, and no photo entry
\* named an existing file: the call ended as a no-op.
C1_Witness ==
  /\ pc = "noop" /\ data.len = 2 /\ idx = 2 /\ fs = Files

\* C2 as stated: a call that reaches the uploader issues exactly one POST.
C2_ExactlyOnePost ==
  pc \in {"success", "failure"} => posts = 1

\* C2 amended: a call issues at most one POST; exactly one once request
\* construction has completed, whatever the outcome, and none when request
\* construction throws; no failure is followed by a second request.
C2_AtMostOnePost ==
  /\ posts <= 1
  /\ (pc = "uploading" /\ step \in {"fetch", "read"}) => posts = 1
  /\ pc = "success" => posts = 1
  /\ pc = "failure" => posts = (IF thrown = ConstructMessage THEN 0 ELSE 1)
  /\ pc \in {"idle", "extracting", "noop"} => posts = 0

\* A failure status was answered and the call is over with one request made.
C2_Witness ==
  /\ pc = "failure" /\ response.status = 500 /\ posts = 1

\* C3: whatever the uploader throws (construction, transport, parse, status)
\* is logged through logger.error with its message, and export's promise is
\* fulfilled, never rejected.
C3_FailuresLoggedNotRethrown ==
  /\ settled # "rejected"
  /\ thrown # <<>> =>
       /\ pc = "failure"
       /\ settled = "fulfilled"
       /\ Last(log) = Entry("error", FailedText, NoJson, thrown)
  /\ pc = "failure" => thrown # <<>>
  /\ pc \in Terminal => settled = "fulfilled"

\* The transport failed and the call ended with the error logged.
C3_Witness ==
  /\ pc = "failure" /\ thrown = TransportMessage("ECONNRESET") /\ settled = "fulfilled"

\* C4: the tags handed to the uploader are the union of the tag lists of all
\* items of the graph, each once.
C4_TagsAreUnion ==
  UploaderInvoked =>
    /\ Range(tagArray) = graphTags
    /\ Cardinality(Range(tagArray)) = Len(tagArray)

\* Two items, one of them without an existing photo, a tag met twice, and
\* both tags handed over.
C4_Witness ==
  /\ pc = "uploading" /\ step = "build"
  /\ idx = 2 /\ Len(photoPaths) = 1
  /\ tagRepeated /\ Len(tagArray) = 2

ResponseHandled == pc \in {"success", "failure"} /\ response # NoResponse

\* C5 as stated: every failure status ends in an error that carries the
\* status code and the serialized body.
C5_FailureStatusReported ==
  (ResponseHandled /\ ~ResponseOk(response)) =>
    /\ pc = "failure"
    /\ StatusText(response.status) \in Range(thrown)
    /\ JsonStringify(JsonParse(response.body)) \in Range(thrown)

\* C5 amended: a failure status with a body that parses as JSON ends in an
\* error whose message carries the status code and the re-serialized body.
C5_FailureStatusWithJsonReported ==
  (ResponseHandled /\ ~ResponseOk(response) /\ IsJson(response.body)) =>
    /\ pc = "failure"
    /\ thrown = <<ApiErrorText, StatusText(response.status), "): ",
                  JsonStringify(JsonParse(response.body))>>

\* HTTP 401 with a JSON error body.
C5_Witness ==
  /\ pc = "failure" /\ response.status = 401
  /\ response.body = "{\"errors\":\"Unauthorized\"}"

\* C6: a body that does not parse as JSON ends, whatever the status, in an
\* error that names the parse failure and embeds the parse error; success is
\* never reported for such a body.
C6_ParseFailureReported ==
  /\ (ResponseHandled /\ ~IsJson(response.body)) =>
       /\ pc = "failure"
       /\ thrown = <<ParseFailureText, ParseError(response.body)>>
  /\ pc = "success" => IsJson(response.body)

\* A failure status with a body that is no JSON.
C6_Witness ==
  /\ pc = "failure" /\ response.status = 500
  /\ response.body = "<html>Bad Gateway</html>"

\* C7: once the uploader has returned or failed, no stream it opened is open.
C7_StreamsReleased ==
  pc \in {"success", "failure"} => \A i \in DOMAIN streams : streams[i] = "closed"

CommaJoined(text, tags) ==
  /\ Len(text) = 2 * Len(tags) - 1
  /\ \A i \in 1..Len(tags) : text[2 * i - 1] = tags[i]
  /\ \A i \in 1..(Len(tags) - 1) : text[2 * i] = ","

\* C8: the form holds type='photo', the empty caption, a tags field with the
\* comma-joined tags exactly when there are tags, and one data[] stream part
\* per path, in the order of the path list.
C8_FormParts ==
  (pc = "uploading" /\ step # "build") \/ pc \in {"success", "failure"} =>
    LET n == IF Len(tagArray) > 0 THEN 1 ELSE 0 IN
    /\ Len(form) = 2 + n + Len(photoPaths)
    /\ form[1] = [name |-> "type", kind |-> "field", value |-> <<"photo">>]
    /\ form[2] = [name |-> "caption", kind |-> "field", value |-> <<>>]
    /\ n = 1 =>
         /\ form[3].name = "tags" /\ form[3].kind = "field"
         /\ CommaJoined(form[3].value, tagArray)
    /\ Cardinality({i \in 1..Len(form) : form[i].name = "tags"}) = n
    /\ \A i \in 1..Len(photoPaths) :
         form[2 + n + i] = [name |-> "data[]", kind |-> "stream",
                            value |-> <<photoPaths[i]>>]

\* One existing photo and no tags: the request is built.
C8_Witness ==
  /\ pc = "uploading" /\ step = "sign"
  /\ Len(photoPaths) = 1 /\ tagArray = <<>> /\ Len(form) = 3

\* C9: each credential is the user's value where the user gave one and the
\* built-in placeholder otherwise, on the instance and in its options, and
\* neither the instance nor the shared defaults change afterwards.
C9_CredentialsFixed ==
  /\ defaults = Defaults
  /\ \A k \in Keys :
       this.options[k] = (IF k \in DOMAIN userOptions THEN userOptions[k] ELSE Defaults[k])
  /\ this.blogName = this.options["blogName"]
  /\ this.consumerKey = this.options["consumerKey"]
  /\ this.consumerSecret = this.options["consumerSecret"]
  /\ this.token = this.options["token"]
  /\ this.tokenSecret = this.options["tokenSecret"]

\* A user who filled in only part of the keys, after a successful export.
C9_Witness ==
  /\ pc = "success"
  /\ DOMAIN userOptions = {"blogName", "token"}
  /\ this.consumerKey = "YOUR_DEFAULT_CONSUMER_KEY" /\ this.token = "tok-user"

PhaseOrder ==
  \/ pc' = pc
  \/ pc = "idle" /\ pc' = "extracting"
  \/ pc = "extracting" /\ pc' \in {"noop", "uploading"}
  \/ pc = "uploading" /\ pc' \in {"success", "failure"}
  \/ pc \in Terminal /\ pc' = "idle"

OneTerminalLog ==
  /\ Cardinality(TerminalEntries) = (IF pc \in Terminal THEN 1 ELSE 0)
  /\ pc \in Terminal => TerminalEntries = {Len(log)}
  /\ pc = "noop" => Last(log).level = "info" /\ Last(log).text \in {NoItemsText, NoPhotosText}
  /\ pc = "success" => Last(log).level = "info" /\ Last(log).text = PostedText
  /\ pc = "failure" => Last(log).level = "error" /\ Last(log).text = FailedText
  /\ ErrorEntries # {} => pc = "failure"

SuccessExactly ==
  /\ pc = "success" => (response # NoResponse /\ Last(log).result = JsonParse(response.body))
  /\ ResponseHandled => (pc = "success" <=> (ResponseOk(response) /\ IsJson(response.body)))

NothingKept ==
  pc = "idle" =>
    /\ step = "none" /\ data = NoData /\ idx = 0
    /\ photoPaths = <<>> /\ allTags = <<>> /\ tagArray = <<>>
    /\ form = <<>> /\ posts = 0 /\ response = NoResponse /\ thrown = <<>>

\* C10: a call moves idle -> extracting -> (noop | uploading) -> (success |
\* failure); it ends, given that the transport answers or fails, in one of the
\* three outcomes, which writes exactly one terminal log; success is reached
\* exactly for an OK status with a body that parses, and logs the parsed body;
\* and a call starts from the same state as the first one.
C10_LinearCall ==
  /\ [][PhaseOrder]_vars
  /\ [](OneTerminalLog /\ SuccessExactly /\ NothingKept)
  /\ (pc = "extracting") ~> (pc \in Terminal)

\* HTTP 200 with a JSON body in its spaced spelling: the parsed body is logged.
C10_Witness ==
  /\ pc = "success" /\ response.body = "{ \"id\" : 7 }"
  /\ Last(log).result = [key |-> "id", val |-> "7"]

====
